---------------------------- MODULE Spec2Model ----------------------------
(***************************************************************************)
(* Model of the query interpretation engine of EasyDealsBot                *)
(* (services/ai_service.py, models/reference_data.py).                     *)
(*                                                                         *)
(* Python strings are sequences of one-character strings, so that          *)
(* str.lower / str.upper, re.split, re.match and the `in` substring test   *)
(* are computed as the code computes them.  JSON values are tagged         *)
(* records (JStr, JNum, JNull, JList, JObj).                               *)
(***************************************************************************)
EXTENDS Integers, Sequences, FiniteSets, TLC

VARIABLES
    refData,    \* AIService.reference_data (the vocabulary), or NoRef for None
    pc,         \* position of parse_search_query: "idle", "awaiting", "done"
    query,      \* the text given to parse_search_query
    calls,      \* number of complete_async calls made by the current parse
    reply,      \* outcome of the completion-service call
    result,     \* the value parse_search_query returned
    path,       \* which return statement produced result
    raised,     \* TRUE iff an exception escaped parse_search_query
    system_message, \* the reference values AIService.__init__ wrote into
                \* self.system_message
    startRef,   \* the vocabulary as it was when the current parse started
    refresh,    \* how the last load_from_notion_response ended
    prevCall,   \* the previous completed call of parse_search_query
    scan,       \* i, geos and geo_languages of _extract_geo_with_language
    session,    \* context.user_data['session'], a UserSession or NoSession
    last_deals_text, \* TRUE iff context.user_data has 'last_deals_text'
    chat,       \* the callback data of the buttons on the user's messages
    sent_filter \* the filter of the last query search_deals sent

\* the state of DealSearchBot's handlers and of NotionService.search_deals
botVars == <<session, last_deals_text, chat, sent_filter>>

\* the state of AIService
parseVars == <<refData, pc, query, calls, reply, result, path, raised,
               system_message, startRef, refresh, prevCall, scan>>

vars == <<parseVars, botVars>>

---------------------------------------------------------------------------
(* Characters and strings                                                  *)

UpperLetters ==
    <<"A","B","C","D","E","F","G","H","I","J","K","L","M",
      "N","O","P","Q","R","S","T","U","V","W","X","Y","Z">>

LowerLetters ==
    <<"a","b","c","d","e","f","g","h","i","j","k","l","m",
      "n","o","p","q","r","s","t","u","v","w","x","y","z">>

\* ASCII order of the letters: upper case before lower case.
Letters == UpperLetters \o LowerLetters

LetterSet == {Letters[i] : i \in DOMAIN Letters}

UpperSet == {UpperLetters[i] : i \in DOMAIN UpperLetters}

LowerSet == {LowerLetters[i] : i \in DOMAIN LowerLetters}

\* ord(c) for a letter, relative to "A".
Ord == [c \in LetterSet |-> CHOOSE i \in DOMAIN Letters : Letters[i] = c]

LowerChar(c) == IF c \in UpperSet THEN LowerLetters[Ord[c]] ELSE c

UpperChar(c) == IF c \in LowerSet THEN UpperLetters[Ord[c] - Len(UpperLetters)] ELSE c

\* str.lower()
StrLower(s) == [i \in 1..Len(s) |-> LowerChar(s[i])]

\* str.upper()
StrUpper(s) == [i \in 1..Len(s) |-> UpperChar(s[i])]

\* `sub in s` for two strings
Contains(sub, s) ==
    \E i \in 0..(Len(s) - Len(sub)) : SubSeq(s, i + 1, i + Len(sub)) = sub

\* s < t in Python's string order (strings of letters)
StrLess(s, t) ==
    \/ /\ Len(s) < Len(t)
       /\ SubSeq(t, 1, Len(s)) = s
    \/ \E i \in 1..Len(s) :
          /\ i <= Len(t)
          /\ SubSeq(s, 1, i - 1) = SubSeq(t, 1, i - 1)
          /\ s[i] \in LetterSet /\ t[i] \in LetterSet
          /\ Ord[s[i]] < Ord[t[i]]

\* SortedList giving the strings from the largest down
RECURSIVE SortedListDescending(_)
SortedListDescending(S) ==
    IF S = {} THEN <<>>
    ELSE LET m == CHOOSE x \in S : \A y \in S \ {x} : StrLess(y, x)
         IN  <<m>> \o SortedListDescending(S \ {m})

\* sorted(list(S)) for a set of strings
RECURSIVE SortedList(_)
SortedList(S) ==
    IF S = {} THEN <<>>
    ELSE LET m == CHOOSE x \in S : \A y \in S \ {x} : StrLess(x, y)
         IN  <<m>> \o SortedList(S \ {m})

\* re.split(r'[...]+', text) followed by the strip()/non-empty filter:
\* the maximal runs of characters outside seps, in order.
RECURSIVE SplitFrom(_, _, _, _)
SplitFrom(text, seps, i, cur) ==
    IF i > Len(text)
    THEN IF cur = <<>> THEN <<>> ELSE <<cur>>
    ELSE IF text[i] \in seps
         THEN IF cur = <<>>
              THEN SplitFrom(text, seps, i + 1, <<>>)
              ELSE <<cur>> \o SplitFrom(text, seps, i + 1, <<>>)
         ELSE SplitFrom(text, seps, i + 1, Append(cur, text[i]))

\* the character class [,\s|+] of the market and channel tokenizers
GeoSeparators == {",", " ", "|", "+"}

\* the character class [,\s] of the partner tokenizer
PartnerSeparators == {",", " "}

SplitParts(text) == SplitFrom(text, GeoSeparators, 1, <<>>)

SplitPartnerParts(text) == SplitFrom(text, PartnerSeparators, 1, <<>>)

Range(seq) == {seq[i] : i \in DOMAIN seq}

---------------------------------------------------------------------------
(* Static tables of AIService                                              *)

TRAFFIC_SOURCE_ALIASES ==
    <<
      <<<<"f","b">>, <<"F","a","c","e","b","o","o","k">>>>,
      <<<<"F","B">>, <<"F","a","c","e","b","o","o","k">>>>,
      <<<<"f","a","c","e","b","o","o","k">>, <<"F","a","c","e","b","o","o","k">>>>,
      <<<<"g","g">>, <<"G","o","o","g","l","e">>>>,
      <<<<"G","G">>, <<"G","o","o","g","l","e">>>>,
      <<<<"g","o","o","g","l","e">>, <<"G","o","o","g","l","e">>>>,
      <<<<"m","s","n">>, <<"M","S","N">>>>,
      <<<<"M","S","N">>, <<"M","S","N">>>>,
      <<<<"b","i","n","g">>, <<"B","i","n","g">>>>,
      <<<<"B","i","n","g">>, <<"B","i","n","g">>>>,
      <<<<"i","g">>, <<"I","n","s","t","a","g","r","a","m">>>>,
      <<<<"I","G">>, <<"I","n","s","t","a","g","r","a","m">>>>,
      <<<<"i","n","s","t","a","g","r","a","m">>, <<"I","n","s","t","a","g","r","a","m">>>>,
      <<<<"i","n","s","t","a">>, <<"I","n","s","t","a","g","r","a","m">>>>,
      <<<<"n","a","t","i","v","e"," ","a","d","s">>, <<"N","a","t","i","v","e","A","d","s">>>>,
      <<<<"N","a","t","i","v","e"," ","A","d","s">>, <<"N","a","t","i","v","e","A","d","s">>>>,
      <<<<"n","a","t","i","v","e"," ","A","d","s">>, <<"N","a","t","i","v","e","A","d","s">>>>,
      <<<<"N","a","t","i","v","e","A","d","s">>, <<"N","a","t","i","v","e","A","d","s">>>>,
      <<<<"N","A","T","I","V","E"," ","A","D","S">>, <<"N","a","t","i","v","e","A","d","s">>>>,
      <<<<"t","a","b","o","o","l","a">>, <<"T","a","b","o","o","l","a">>>>,
      <<<<"T","a","b","o","o","l","a">>, <<"T","a","b","o","o","l","a">>>>,
      <<<<"t","i","k","t","o","k">>, <<"T","i","k","T","o","k">>>>,
      <<<<"T","i","k","T","o","k">>, <<"T","i","k","T","o","k">>>>,
      <<<<"t","t">>, <<"T","i","k","T","o","k">>>>,
      <<<<"T","T">>, <<"T","i","k","T","o","k">>>>,
      <<<<"s","e","o">>, <<"S","E","O">>>>,
      <<<<"S","E","O">>, <<"S","E","O">>>>,
      <<<<"p","u","s","h">>, <<"P","u","s","h">>>>,
      <<<<"P","u","s","h">>, <<"P","u","s","h">>>>,
      <<<<"p","u","s","h","n","o","t","i","f">>, <<"P","u","s","h">>>>,
      <<<<"p","u","s","h","n","o","t","i","f","i","c","a","t","i","o","n">>, <<"P","u","s","h">>>>,
      <<<<"e","m","a","i","l">>, <<"E","m","a","i","l">>>>,
      <<<<"E","m","a","i","l">>, <<"E","m","a","i","l">>>>,
      <<<<"m","a","i","l">>, <<"E","m","a","i","l">>>>,
      <<<<"M","a","i","l">>, <<"E","m","a","i","l">>>>
    >>

LANGUAGE_MAP ==
    <<
      <<<<"n","a","t","i","v","e">>, <<"N","a","t","i","v","e">>>>,
      <<<<"e","n","g","l","i","s","h">>, <<"E","n","g","l","i","s","h">>>>,
      <<<<"e","n">>, <<"E","n","g","l","i","s","h">>>>,
      <<<<"f","r","e","n","c","h">>, <<"F","r","e","n","c","h">>>>,
      <<<<"f","r">>, <<"F","r","e","n","c","h">>>>,
      <<<<"s","p","a","n","i","s","h">>, <<"S","p","a","n","i","s","h">>>>,
      <<<<"e","s">>, <<"S","p","a","n","i","s","h">>>>,
      <<<<"g","e","r","m","a","n">>, <<"G","e","r","m","a","n">>>>,
      <<<<"d","e">>, <<"G","e","r","m","a","n">>>>,
      <<<<"r","u","s","s","i","a","n">>, <<"R","u","s","s","i","a","n">>>>,
      <<<<"r","u">>, <<"R","u","s","s","i","a","n">>>>,
      <<<<"p","o","r","t","u","g","u","e","s","e">>, <<"P","o","r","t","u","g","u","e","s","e">>>>,
      <<<<"p","t">>, <<"P","o","r","t","u","g","u","e","s","e">>>>,
      <<<<"i","t","a","l","i","a","n">>, <<"I","t","a","l","i","a","n">>>>,
      <<<<"i","t">>, <<"I","t","a","l","i","a","n">>>>,
      <<<<"d","u","t","c","h">>, <<"D","u","t","c","h">>>>,
      <<<<"n","l">>, <<"D","u","t","c","h">>>>,
      <<<<"p","o","l","i","s","h">>, <<"P","o","l","i","s","h">>>>,
      <<<<"p","l">>, <<"P","o","l","i","s","h">>>>,
      <<<<"t","u","r","k","i","s","h">>, <<"T","u","r","k","i","s","h">>>>,
      <<<<"t","r">>, <<"T","u","r","k","i","s","h">>>>,
      <<<<"a","r","a","b","i","c">>, <<"A","r","a","b","i","c">>>>,
      <<<<"a","r">>, <<"A","r","a","b","i","c">>>>,
      <<<<"c","h","i","n","e","s","e">>, <<"C","h","i","n","e","s","e">>>>,
      <<<<"z","h">>, <<"C","h","i","n","e","s","e">>>>,
      <<<<"j","a","p","a","n","e","s","e">>, <<"J","a","p","a","n","e","s","e">>>>,
      <<<<"j","a">>, <<"J","a","p","a","n","e","s","e">>>>,
      <<<<"k","o","r","e","a","n">>, <<"K","o","r","e","a","n">>>>,
      <<<<"k","o">>, <<"K","o","r","e","a","n">>>>,
      <<<<"n","a","t">>, <<"N","a","t","i","v","e">>>>,
      <<<<"e","n","g">>, <<"E","n","g","l","i","s","h">>>>,
      <<<<"f","r","a">>, <<"F","r","e","n","c","h">>>>,
      <<<<"e","s","p">>, <<"S","p","a","n","i","s","h">>>>,
      <<<<"d","e","u">>, <<"G","e","r","m","a","n">>>>,
      <<<<"r","u","s">>, <<"R","u","s","s","i","a","n">>>>,
      <<<<"p","o","r">>, <<"P","o","r","t","u","g","u","e","s","e">>>>,
      <<<<"i","t","a">>, <<"I","t","a","l","i","a","n">>>>,
      <<<<"n","l","d">>, <<"D","u","t","c","h">>>>,
      <<<<"p","o","l">>, <<"P","o","l","i","s","h">>>>,
      <<<<"t","u","r">>, <<"T","u","r","k","i","s","h">>>>,
      <<<<"a","r","a">>, <<"A","r","a","b","i","c">>>>,
      <<<<"c","h","n">>, <<"C","h","i","n","e","s","e">>>>,
      <<<<"j","p","n">>, <<"J","a","p","a","n","e","s","e">>>>,
      <<<<"k","o","r">>, <<"K","o","r","e","a","n">>>>
    >>

REGION_MAPPING ==
    <<
      <<<<"N","O","R","D","I","C","S">>, <<<<"D","K">>, <<"F","I">>, <<"I","S">>, <<"N","O">>, <<"S","E">>>>>>,
      <<<<"B","A","L","T","I","C","S">>, <<<<"E","E">>, <<"L","V">>, <<"L","T">>>>>>,
      <<<<"G","C","C">>, <<<<"A","E">>, <<"B","H">>, <<"K","W">>, <<"O","M">>, <<"Q","A">>, <<"S","A">>>>>>,
      <<<<"L","A","T","A","M">>, <<<<"A","R">>, <<"B","O">>, <<"B","R">>, <<"C","L">>, <<"C","O">>, <<"C","R">>, <<"C","U">>, <<"D","O">>, <<"E","C">>, <<"S","V">>, <<"G","T">>, <<"H","N">>, <<"M","X">>, <<"N","I">>, <<"P","A">>, <<"P","Y">>, <<"P","E">>, <<"U","Y">>, <<"V","E">>>>>>
    >>


\* dict built from a sequence of <<key, value>> items
DictOf(items) ==
    [k \in {items[i][1] : i \in DOMAIN items} |->
        (CHOOSE p \in Range(items) : p[1] = k)[2]]

RegionMap == DictOf(REGION_MAPPING)

LanguageMap == DictOf(LANGUAGE_MAP)

w_native == <<"n","a","t","i","v","e">>

w_Native == <<"N","a","t","i","v","e">>

w_nat == <<"n","a","t">>

w_NativeAds == <<"N","a","t","i","v","e","A","d","s">>

\* the set {'ads', 'ad'} of the scan's and the channel pass's lookahead
AdsWords == {<<"a","d","s">>, <<"a","d">>}

\* the language indicators the channel pass skips
LanguageIndicators ==
    { w_native,
      <<"e","n","g","l","i","s","h">>,
      <<"f","r","e","n","c","h">>,
      <<"s","p","a","n","i","s","h">>,
      <<"g","e","r","m","a","n">>,
      <<"r","u","s","s","i","a","n">> }

\* ExpandRegion looking the label up as typed
ExpandRegionAsTyped(region) ==
    IF region \in DOMAIN RegionMap THEN SortedList(Range(RegionMap[region])) ELSE <<>>

\* sorted(REGION_MAPPING.get(region.upper(), []))
ExpandRegion(region) ==
    LET u == StrUpper(region)
    IN  IF u \in DOMAIN RegionMap THEN SortedList(Range(RegionMap[u])) ELSE <<>>

\* LANGUAGE_MAP.get(lang.lower(), 'Native')
NormalizeLanguage(lang) ==
    LET l == StrLower(lang)
    IN  IF l \in DOMAIN LanguageMap THEN LanguageMap[l] ELSE w_Native

---------------------------------------------------------------------------
(* JSON values and Python dicts                                            *)

JStr(s) == [t |-> "str", s |-> s]

JNum(n) == [t |-> "num", n |-> n]

JNull == [t |-> "null"]

JList(xs) == [t |-> "list", xs |-> xs]

JObj(f) == [t |-> "obj", f |-> f]

EmptyDict == [k \in {} |-> JNull]

\* d[k] = v
DictPut(d, k, v) == [x \in (DOMAIN d) \cup {k} |-> IF x = k THEN v ELSE d[x]]

\* del d[k]
DictDel(d, k) == [x \in (DOMAIN d) \ {k} |-> d[x]]

\* the keys of the result dict
k_geos == <<"g","e","o","s">>

k_geo_languages == <<"g","e","o","_","l","a","n","g","u","a","g","e","s">>

k_traffic_sources == <<"t","r","a","f","f","i","c","_","s","o","u","r","c","e","s">>

k_partners == <<"p","a","r","t","n","e","r","s">>

StrList(seq) == JList([i \in DOMAIN seq |-> JStr(seq[i])])

---------------------------------------------------------------------------
(* ReferenceData                                                           *)

\* ReferenceData(geo_codes, partner_names, traffic_sources)
ReferenceData(geo_codes, partner_names, traffic_sources) ==
    [ present            |-> TRUE,
      geo_codes          |-> geo_codes,
      partner_names      |-> partner_names,
      traffic_sources    |-> traffic_sources,
      partner_id_to_name |-> EmptyDict ]

\* reference_data = None, the default of AIService.__init__
NoRef ==
    [ present |-> FALSE, geo_codes |-> {}, partner_names |-> {},
      traffic_sources |-> {}, partner_id_to_name |-> EmptyDict ]

---------------------------------------------------------------------------
(* Pattern extraction                                                      *)

\* re.match(r'^([A-Z]{2})((?:[a-z]{2}|nat))$', part, re.IGNORECASE)
CombinedMatch(part) ==
    /\ \A i \in DOMAIN part : part[i] \in LetterSet
    /\ \/ Len(part) = 4
       \/ Len(part) = 5 /\ StrLower(SubSeq(part, 3, 5)) = w_nat

\* the scan's test `next_part in self._normalize_language(next_part).lower()`
ActsAsLanguage(next_part) ==
    Contains(next_part, StrLower(NormalizeLanguage(next_part)))

\* NativeAdsAhead knowing the plural 'ads' only
NativeAdsAheadOnlyAds(parts, i) ==
    /\ StrLower(parts[i + 1]) = w_native
    /\ i + 2 <= Len(parts)
    /\ StrLower(parts[i + 2]) = <<"a","d","s">>

\* `next_part == 'native' and i + 2 < len(parts) and parts[i+2].lower() in
\* {'ads', 'ad'}`, with i the (1-based) position of the market token
NativeAdsAhead(parts, i) ==
    /\ StrLower(parts[i + 1]) = w_native
    /\ i + 2 <= Len(parts)
    /\ StrLower(parts[i + 2]) \in AdsWords

\* the while loop of _extract_geo_with_language from position i on
RECURSIVE GeoScan(_, _, _, _, _)
GeoScan(ref, parts, i, geos, langs) ==
    IF i > Len(parts) THEN [geos |-> geos, langs |-> langs]
    ELSE
    LET part == parts[i]
        expanded_geos == ExpandRegion(part)
    IN
    IF expanded_geos # <<>>
    THEN LET geos2 == geos \cup Range(expanded_geos)
         IN  IF i + 1 <= Len(parts)
             THEN IF NativeAdsAhead(parts, i)
                  THEN GeoScan(ref, parts, i + 2, geos2, langs)
                  ELSE IF ActsAsLanguage(StrLower(parts[i + 1]))
                  THEN LET lang == NormalizeLanguage(StrLower(parts[i + 1]))
                       IN  GeoScan(ref, parts, i + 2, geos2,
                               [c \in (DOMAIN langs) \cup Range(expanded_geos) |->
                                   IF c \in Range(expanded_geos) THEN lang
                                   ELSE langs[c]])
                  ELSE GeoScan(ref, parts, i + 1, geos2, langs)
             ELSE GeoScan(ref, parts, i + 1, geos2, langs)
    ELSE IF /\ CombinedMatch(part)
            /\ StrUpper(SubSeq(part, 1, 2)) \in ref.geo_codes
    THEN LET geo == StrUpper(SubSeq(part, 1, 2))
             lang_code == StrLower(SubSeq(part, 3, Len(part)))
         IN  GeoScan(ref, parts, i + 1, geos \cup {geo},
                     DictPut(langs, geo, NormalizeLanguage(lang_code)))
    ELSE IF StrUpper(part) \in ref.geo_codes
    THEN LET geo == StrUpper(part)
             geos2 == geos \cup {geo}
         IN  IF i + 1 <= Len(parts)
             THEN LET next_part == StrLower(parts[i + 1])
                      next_lang == NormalizeLanguage(next_part)
                  IN  IF Contains(next_part, StrLower(next_lang))
                      THEN IF NativeAdsAhead(parts, i)
                           THEN GeoScan(ref, parts, i + 2, geos2, langs)
                           ELSE GeoScan(ref, parts, i + 2, geos2,
                                        DictPut(langs, geo, next_lang))
                      ELSE GeoScan(ref, parts, i + 1, geos2, langs)
             ELSE GeoScan(ref, parts, i + 1, geos2, langs)
    ELSE GeoScan(ref, parts, i + 1, geos, langs)

\* _extract_geo_with_language: (sorted geos, geo_languages)
ExtractGeoWithLanguage(ref, text) ==
    IF ~ref.present THEN [geos |-> <<>>, langs |-> EmptyDict]
    ELSE LET r == GeoScan(ref, SplitParts(text), 1, {}, EmptyDict)
         IN  [geos |-> SortedList(r.geos), langs |-> r.langs]

\* AliasSources looking for the alias as written in the text as typed
AliasSourcesAsTyped(text) ==
    { TRAFFIC_SOURCE_ALIASES[j][2] : j \in
        { a \in DOMAIN TRAFFIC_SOURCE_ALIASES :
            Contains(TRAFFIC_SOURCE_ALIASES[a][1], text) } }

\* first loop of _extract_traffic_sources: aliases contained in the text
AliasSources(text) ==
    LET lower_text == StrLower(text)
    IN  { TRAFFIC_SOURCE_ALIASES[j][2] : j \in
            { a \in DOMAIN TRAFFIC_SOURCE_ALIASES :
                Contains(StrLower(TRAFFIC_SOURCE_ALIASES[a][1]), lower_text) } }

\* one iteration of the second loop of _extract_traffic_sources: the
\* sources part i adds to found_sources
PartSources(ref, parts, i) ==
    LET part == parts[i]
        part_lower == StrLower(part)
        known == { s \in ref.traffic_sources : StrLower(s) = part_lower }
    IN
    IF StrUpper(part) \in ref.geo_codes THEN {}
    ELSE IF \E p \in ref.partner_names : StrLower(p) = part_lower THEN {}
    ELSE IF /\ part_lower \in LanguageIndicators
            /\ i > 1
            /\ StrUpper(parts[i - 1]) \in ref.geo_codes
    THEN {}
    ELSE IF /\ part_lower = w_native
            /\ i + 1 <= Len(parts)
            /\ StrLower(parts[i + 1]) \in AdsWords
    THEN {w_NativeAds}
    \* `break` after the first match: one of the sources equal up to case
    ELSE IF known = {} THEN {} ELSE {CHOOSE s \in known : TRUE}

\* _extract_traffic_sources
ExtractTrafficSources(ref, text) ==
    IF ~ref.present THEN <<>>
    ELSE LET parts == SplitParts(text)
         IN  SortedList(AliasSources(text) \cup
                 UNION { PartSources(ref, parts, i) : i \in DOMAIN parts })

\* PartnerScan appending the query's own token instead of the vocabulary's
\* partner name
RECURSIVE PartnerScanAppendsPart(_, _, _)
PartnerScanAppendsPart(ref, parts, i) ==
    IF i > Len(parts) THEN <<>>
    ELSE LET part_lower == StrLower(parts[i])
             m == { p \in ref.partner_names : StrLower(p) = part_lower }
         IN  (IF m = {} THEN <<>> ELSE <<parts[i]>>)
                 \o PartnerScanAppendsPart(ref, parts, i + 1)

\* the partners one part appends to found_partners
RECURSIVE PartnerScan(_, _, _)
PartnerScan(ref, parts, i) ==
    IF i > Len(parts) THEN <<>>
    ELSE LET part_lower == StrLower(parts[i])
             m == { p \in ref.partner_names : StrLower(p) = part_lower }
         IN  SortedList(m) \o PartnerScan(ref, parts, i + 1)

\* _extract_partner_names
ExtractPartnerNames(ref, text) ==
    IF ~ref.present THEN <<>>
    ELSE PartnerScan(ref, SplitPartnerParts(text), 1)

\* the dict _fallback_pattern_matching builds from the three extractions:
\* a key is set only when its value is non-empty (lines 384-395)
PatternDict(geo_result, traffic_sources, partners) ==
    JObj([k \in
            (IF geo_result.geos # <<>> THEN {k_geos} ELSE {}) \cup
            (IF DOMAIN geo_result.langs # {} THEN {k_geo_languages} ELSE {}) \cup
            (IF traffic_sources # <<>> THEN {k_traffic_sources} ELSE {}) \cup
            (IF partners # <<>> THEN {k_partners} ELSE {})
          |-> CASE k = k_geos            -> StrList(geo_result.geos)
                [] k = k_geo_languages   ->
                       JObj([c \in DOMAIN geo_result.langs |->
                               JStr(geo_result.langs[c])])
                [] k = k_traffic_sources -> StrList(traffic_sources)
                [] OTHER                 -> StrList(partners)])

\* _fallback_pattern_matching
FallbackPatternMatching(ref, text) ==
    PatternDict(ExtractGeoWithLanguage(ref, text),
                ExtractTrafficSources(ref, text),
                ExtractPartnerNames(ref, text))

---------------------------------------------------------------------------
(* Validation of the completion-service reply                              *)

\* a step of the try body: a value, or the exception it raised
Ok(v) == [exc |-> "none", val |-> v]

Raise(e) == [exc |-> e, val |-> JNull]

\* `key in result`: "yes", "no" or "TypeError"
KeyIn(key, r) ==
    CASE r.t = "obj"  -> IF key \in DOMAIN r.f THEN "yes" ELSE "no"
      [] r.t = "list" -> IF \E i \in DOMAIN r.xs :
                               r.xs[i].t = "str" /\ r.xs[i].s = key
                         THEN "yes" ELSE "no"
      [] r.t = "str"  -> IF Contains(key, r.s) THEN "yes" ELSE "no"
      [] OTHER        -> "TypeError"

\* the items `for x in v` yields (a dict yields its keys; they are listed
\* in ascending order here); <<>> also stands for a value that is not
\* iterable (see Iterable)
Items(v) ==
    CASE v.t = "list" -> v.xs
      [] v.t = "str"  -> [i \in DOMAIN v.s |-> JStr(<<v.s[i]>>)]
      [] v.t = "obj"  -> StrList(SortedList(DOMAIN v.f)).xs
      [] OTHER        -> <<>>

Iterable(v) == v.t \in {"list", "str", "obj"}

\* x can be looked up in a set (lists and dicts are unhashable)
Hashable(x) == x.t \in {"str", "num", "null"}

\* FilterField storing the validated list even when it is empty
FilterFieldKeepsEmpty(ref, r, key, items, kept) ==
    IF items # <<>> /\ ~ref.present THEN Raise("AttributeError")
    ELSE IF \E i \in DOMAIN items : ~Hashable(items[i]) THEN Raise("TypeError")
    ELSE Ok(JObj(DictPut(r.f, key, JList(kept))))

\* the list comprehension of lines 336-339 over the items of result[key]
\* and the replace-or-delete of lines 340-343; kept are the items in the
\* vocabulary
FilterField(ref, r, key, items, kept) ==
    IF items # <<>> /\ ~ref.present THEN Raise("AttributeError")
    ELSE IF \E i \in DOMAIN items : ~Hashable(items[i]) THEN Raise("TypeError")
    ELSE IF kept # <<>> THEN Ok(JObj(DictPut(r.f, key, JList(kept))))
    ELSE Ok(JObj(DictDel(r.f, key)))

\* the values of items that are strings of the set valid
KeptItems(items, valid) ==
    SelectSeq(items, LAMBDA x : x.t = "str" /\ x.s \in valid)

\* `if key in result:` and the validation of result[key] (lines 335-343,
\* 345-353, 355-363)
ValidateField(ref, r, key, valid) ==
    CASE KeyIn(key, r) = "TypeError" -> Raise("TypeError")
      [] KeyIn(key, r) = "no"        -> Ok(r)
      [] OTHER ->
            IF r.t # "obj" THEN Raise("TypeError")
            ELSE IF ~Iterable(r.f[key]) THEN Raise("TypeError")
            ELSE FilterField(ref, r, key, Items(r.f[key]),
                             KeptItems(Items(r.f[key]), valid))

\* the next validation, unless an earlier statement raised
ValidateNext(ref, prev, key, valid) ==
    IF prev.exc # "none" THEN prev ELSE ValidateField(ref, prev.val, key, valid)

\* lines 335-363: the three validated fields, in order
ValidateReply(ref, r) ==
    ValidateNext(ref,
        ValidateNext(ref,
            ValidateField(ref, r, k_geos, ref.geo_codes),
            k_traffic_sources, ref.traffic_sources),
        k_partners, ref.partner_names)

\* `not result`
Falsy(r) ==
    CASE r.t = "obj"  -> DOMAIN r.f = {}
      [] r.t = "list" -> r.xs = <<>>
      [] r.t = "str"  -> r.s = <<>>
      [] r.t = "num"  -> r.n = 0
      [] OTHER        -> TRUE

\* AfterValidation without the fallback to pattern matching
AfterValidationNoFallback(v, pattern) ==
    IF v.exc # "none"
    THEN [exc |-> v.exc, val |-> JNull, path |-> "none"]
    ELSE [exc |-> "none", val |-> v.val, path |-> "service"]

\* lines 365-369, with v the outcome of the validation and pattern the
\* value of _fallback_pattern_matching(query): the value returned and the
\* return statement reached, or the exception raised
AfterValidation(v, pattern) ==
    IF v.exc # "none"
    THEN [exc |-> v.exc, val |-> JNull, path |-> "none"]
    ELSE IF Falsy(v.val)
    THEN [exc |-> "none", val |-> pattern, path |-> "pattern_empty"]
    ELSE [exc |-> "none", val |-> v.val, path |-> "service"]

\* the try body after the await (lines 328-373) for the call outcome rep
TryBodyWith(ref, rep, pattern) ==
    CASE rep.kind = "raise"     -> [exc |-> "ServiceError", val |-> JNull, path |-> "none"]
      [] rep.kind = "nocontent" -> [exc |-> "TypeError", val |-> JNull, path |-> "none"]
      [] rep.kind = "garbage"   ->
            [exc |-> "none", val |-> pattern, path |-> "pattern_decode_error"]
      [] OTHER -> AfterValidation(ValidateReply(ref, rep.json), pattern)

\* the try body after the await, _fallback_pattern_matching included
TryBody(ref, text, rep) ==
    TryBodyWith(ref, rep, FallbackPatternMatching(ref, text))

\* a handler that lets the exception through
ExceptHandlerReraises(out) ==
    IF out.exc # "none"
    THEN [raised |-> TRUE, val |-> JNull, path |-> "error"]
    ELSE [raised |-> FALSE, val |-> out.val, path |-> out.path]

\* `except Exception` of lines 375-377
ExceptHandler(out) ==
    IF out.exc # "none"
    THEN [raised |-> FALSE, val |-> JObj(EmptyDict), path |-> "error"]
    ELSE [raised |-> FALSE, val |-> out.val, path |-> out.path]

---------------------------------------------------------------------------
(* Inputs: vocabularies, query texts, completion-service outcomes          *)

\* SAMPLE_REFERENCE_DATA of tests/test_ai_parser.py
SampleGeoCodes ==
    {
      <<"U","K">>, <<"U","S">>, <<"E","S">>, <<"F","R">>, <<"D","E">>,
      <<"C","H">>, <<"M","X">>, <<"J","P">>, <<"F","I">>, <<"D","K">>,
      <<"I","S">>, <<"N","O">>, <<"S","E">>, <<"P","L">>, <<"C","Z">>,
      <<"C","Y">>, <<"J","O">>, <<"S","A">>, <<"M","T">>, <<"L","K">>,
      <<"M","Y">>, <<"Z","A">>, <<"R","U">>, <<"S","G">>, <<"C","A">>,
      <<"A","E">>, <<"B","H">>, <<"K","W">>, <<"O","M">>, <<"Q","A">> }

SamplePartnerNames ==
    {
      <<"S","u","t","r","a">>, <<"T","o","k","o","M","e","d","i","a">>,
      <<"M","e","d","i","a","B","u","y">>, <<"A","d","C","o","m","b","o">> }

SampleTrafficSources ==
    {
      <<"F","a","c","e","b","o","o","k">>, <<"G","o","o","g","l","e">>,
      <<"N","a","t","i","v","e","A","d","s">>, <<"M","S","N">>,
      <<"B","i","n","g">>, <<"I","n","s","t","a","g","r","a","m">>,
      <<"T","i","k","T","o","k">>, <<"S","E","O">>,
      <<"T","a","b","o","o","l","a">>, <<"P","u","s","h">>,
      <<"E","m","a","i","l">> }

SampleRef == ReferenceData(SampleGeoCodes, SamplePartnerNames, SampleTrafficSources)

\* a catalog with few offers: some Nordic markets and TikTok are not in it
SmallRef ==
    ReferenceData({<<"U","K">>, <<"C","H">>, <<"D","K">>, <<"S","E">>},
                  {<<"S","u","t","r","a">>},
                  {<<"F","a","c","e","b","o","o","k">>, <<"S","E","O">>})

\* ReferenceData() before anything was loaded
EmptyRef == ReferenceData({}, {}, {})

Vocabularies == {SampleRef, SmallRef, EmptyRef, NoRef}

\* the words queries are made of: a market code, a region label, a channel
\* alias, a partner name in lower case, a compact token, a language word and
\* a word of no vocabulary
Lexicon ==
    { <<"U","K">>,
      <<"N","O","R","D","I","C","S">>,
      <<"t","t">>,
      <<"s","u","t","r","a">>,
      <<"C","H","f","r">>,
      <<"N","a","t","i","v","e">>,
      <<"h","e","l","l","o">> }

Separators == { <<" ">>, <<"|">> }

\* largest number of words in a query
MaxTokens == 2

RECURSIVE QueriesOfLen(_)
QueriesOfLen(n) ==
    IF n = 1 THEN Lexicon
    ELSE { q \o sep \o w : q \in QueriesOfLen(n - 1), sep \in Separators, w \in Lexicon }

Queries == UNION { QueriesOfLen(n) : n \in 1..MaxTokens }

j_UK == JStr(<<"U","K">>)

j_IS == JStr(<<"I","S">>)

j_French == JStr(<<"F","r","e","n","c","h">>)

k_foo == <<"f","o","o">>

Absent == [t |-> "absent"]

\* values the completion service may give each field (Absent: key omitted)
GeosReplies == {Absent, JList(<<j_UK, j_IS>>), JList(<<j_IS>>)}

GeoLanguagesReplies ==
    {Absent, JObj(EmptyDict), JObj([c \in {<<"I","S">>} |-> j_French])}

TrafficSourcesReplies == {Absent, JList(<<JStr(<<"T","i","k","T","o","k">>), JStr(<<"S","E","O">>)>>)}

PartnersReplies == {Absent, JList(<<JStr(<<"s","u","t","r","a">>), JStr(<<"S","u","t","r","a">>)>>)}

\* the JSON object with the given field values
ReplyObject(g, l, s, p) ==
    LET f == [k \in {k_geos, k_geo_languages, k_traffic_sources, k_partners} |->
                CASE k = k_geos            -> g
                  [] k = k_geo_languages   -> l
                  [] k = k_traffic_sources -> s
                  [] OTHER                 -> p]
    IN  JObj([k \in {x \in DOMAIN f : f[x].t # "absent"} |-> f[k]])

\* replies of the requested shape: objects with a subset of the four fields
ObjectReplies ==
    { ReplyObject(g, l, s, p) : g \in GeosReplies, l \in GeoLanguagesReplies,
                                s \in TrafficSourcesReplies, p \in PartnersReplies }

\* replies of another shape, or with field values of another type
OddReplies ==
    { JObj([k \in {k_foo} |-> JNum(1)]),
      JList(<<JNum(1)>>),
      JList(<<>>),
      JList(<<JStr(k_geos)>>),
      JStr(<<"h","e","l","l","o">>),
      JStr(k_geos),
      JStr(<<>>),
      JNum(5),
      JNull,
      JObj([k \in {k_geos} |-> JNum(5)]),
      JObj([k \in {k_geos} |-> JList(<<>>)]),
      JObj([k \in {k_geos} |-> j_UK]),
      JObj([k \in {k_geos} |-> JList(<<JList(<<j_UK>>)>>)]),
      JObj([k \in {k_geos} |-> JObj([c \in {<<"U","K">>} |-> JNum(1)])]) }

\* outcomes of `await complete_async(...)` followed by json.loads(content)
ServiceReplies ==
    { [kind |-> "content", json |-> j] : j \in ObjectReplies \cup OddReplies }
    \cup { [kind |-> "garbage"], [kind |-> "nocontent"] }

NoReply == [kind |-> "none"]

\* the three reference lines of self.system_message (lines 80-82): the
\* sorted values, empty when reference_data is None
SystemMessage(ref) ==
    [ geo_codes       |-> SortedList(ref.geo_codes),
      traffic_sources |-> SortedList(ref.traffic_sources),
      partner_names   |-> SortedList(ref.partner_names) ]

\* no call of parse_search_query has completed yet
NoCall == [made |-> FALSE]

\* _extract_geo_with_language is not running
\* no session in context.user_data
NoSession == [present |-> FALSE]

\* search_deals has sent no query yet
NoFilter == [sent |-> FALSE]

\* no message has been handled and no search has been made
BotIdle ==
    /\ session = NoSession
    /\ last_deals_text = FALSE
    /\ chat = {}
    /\ sent_filter = NoFilter

NoScan == [i |-> 0, geos |-> {}, langs |-> EmptyDict]

---------------------------------------------------------------------------
(* parse_search_query as a state machine                                   *)

Init ==
    /\ refData \in Vocabularies
    /\ pc = "idle"
    /\ query = <<>>
    /\ calls = 0
    /\ reply = NoReply
    /\ result = JNull
    /\ path = "none"
    /\ raised = FALSE
    /\ system_message = SystemMessage(refData)
    /\ startRef = refData
    /\ refresh = "none"
    /\ prevCall = NoCall
    /\ scan = NoScan
    /\ BotIdle

StartParseRebuildsMessage(q) ==
    /\ pc = "idle"
    /\ pc' = "awaiting"
    /\ query' = q
    /\ calls' = 1
    /\ reply' = NoReply
    /\ result' = JNull
    /\ path' = "none"
    /\ raised' = FALSE
    /\ startRef' = refData
    /\ system_message' = SystemMessage(refData)
    /\ UNCHANGED <<refData, refresh, prevCall, scan>>
    /\ UNCHANGED botVars

\* lines 312-326: a parse starts and suspends on the completion-service call
StartParse(q) ==
    /\ pc = "idle"
    /\ pc' = "awaiting"
    /\ query' = q
    /\ calls' = 1
    /\ reply' = NoReply
    /\ result' = JNull
    /\ path' = "none"
    /\ raised' = FALSE
    /\ startRef' = refData
    /\ UNCHANGED <<refData, system_message, refresh, prevCall, scan>>
    /\ UNCHANGED botVars

\* the rest of parse_search_query once the call has ended with outcome rep;
\* h is what the try statement gives
ReturnWith(rep, h) ==
    /\ pc' = "done"
    /\ reply' = rep
    /\ result' = h.val
    /\ path' = h.path
    /\ raised' = h.raised
    /\ UNCHANGED <<refData, query, calls, system_message, startRef, refresh,
                   prevCall, scan>>
    /\ UNCHANGED botVars

Resume(rep) == ReturnWith(rep, ExceptHandler(TryBody(refData, query, rep)))

\* the call returns a response
ServiceReturns ==
    /\ pc = "awaiting"
    /\ \E rep \in ServiceReplies : Resume(rep)

\* the call raises (network, authentication, rate limit, no choices)
ServiceFails ==
    /\ pc = "awaiting"
    /\ Resume([kind |-> "raise"])

\* the caller (DealSearchBot._get_deals) has consumed the returned value
Finish ==
    /\ pc = "done"
    /\ pc' = "idle"
    /\ query' = <<>>
    /\ calls' = 0
    /\ reply' = NoReply
    /\ result' = JNull
    /\ path' = "none"
    /\ raised' = FALSE
    /\ UNCHANGED <<refData, system_message, startRef, refresh, prevCall, scan>>
    /\ UNCHANGED botVars

Next ==
    \/ \E q \in Queries : StartParse(q)
    \/ ServiceReturns
    \/ ServiceFails
    \/ Finish

Spec == Init /\ [][Next]_vars

---------------------------------------------------------------------------
(* Vocabulary of the properties                                            *)

Done == pc = "done"

EmptyResult == JObj(EmptyDict)

CriteriaKeys == {k_geos, k_geo_languages, k_traffic_sources, k_partners}

ValidatedKeys == {k_geos, k_traffic_sources, k_partners}

\* what the deterministic pattern extraction gives for the current query
PatternResult == FallbackPatternMatching(refData, query)

PatternEmpty == PatternResult = EmptyResult

\* the strings of a list-valued field of a result ({} when the field is absent)
FieldValues(r, key) ==
    IF r.t = "obj" /\ key \in DOMAIN r.f /\ r.f[key].t = "list"
    THEN { r.f[key].xs[i].s :
             i \in { j \in DOMAIN r.f[key].xs : r.f[key].xs[j].t = "str" } }
    ELSE {}

\* the keys of the geo_languages map of a result
LanguageKeys(r) ==
    IF r.t = "obj" /\ k_geo_languages \in DOMAIN r.f /\ r.f[k_geo_languages].t = "obj"
    THEN DOMAIN r.f[k_geo_languages].f
    ELSE {}

\* the vocabulary a validated field is checked against
VocabularyOf(key) ==
    CASE key = k_geos            -> refData.geo_codes
      [] key = k_traffic_sources -> refData.traffic_sources
      [] OTHER                   -> refData.partner_names

\* the reply is a JSON object whose validated fields are lists of strings
WellTypedReply ==
    /\ reply.kind = "content"
    /\ reply.json.t = "obj"
    /\ \A k \in ValidatedKeys \cap DOMAIN reply.json.f :
          /\ reply.json.f[k].t = "list"
          /\ \A i \in DOMAIN reply.json.f[k].xs : reply.json.f[k].xs[i].t = "str"

\* the values of a reply field that are in the vocabulary, in reply order
KeptValues(key) ==
    SelectSeq(reply.json.f[key].xs, LAMBDA x : x.s \in VocabularyOf(key))

\* the reply has only validated fields and none of their values is valid
ReplyValidatesToNothing ==
    /\ WellTypedReply
    /\ DOMAIN reply.json.f \subseteq ValidatedKeys
    /\ \A k \in DOMAIN reply.json.f : KeptValues(k) = <<>>

\* the reply is not an object with a subset of the four criteria keys
ReplyUnusable ==
    \/ reply.kind # "content"
    \/ reply.json.t # "obj"
    \/ ~(DOMAIN reply.json.f \subseteq CriteriaKeys)

---------------------------------------------------------------------------
(* Properties                                                              *)

C2_FallbackResult ==
    (Done /\ PatternEmpty) =>
        IF ReplyUnusable \/ ReplyValidatesToNothing
        THEN result = EmptyResult
        ELSE \/ result = EmptyResult
             \/ /\ result.t = "obj"
                /\ \A k \in ValidatedKeys \cap DOMAIN result.f :
                      WellTypedReply => result.f[k] = JList(KeptValues(k))

\* C3: in every returned result every key of geo_languages is an element of
\* geos.
C3_LanguageKeysAreMarkets ==
    Done => LanguageKeys(result) \subseteq FieldValues(result, k_geos)

\* C4: every market code of a returned result is a market code of the
\* vocabulary.
C4_MarketsInVocabulary ==
    Done => FieldValues(result, k_geos) \subseteq refData.geo_codes

\* C5: every channel of a returned result is a channel of the vocabulary.
C5_ChannelsInVocabulary ==
    Done => FieldValues(result, k_traffic_sources) \subseteq refData.traffic_sources

\* C6: every partner of a returned result is a partner name of the
\* vocabulary, in the vocabulary's casing, on both paths.
C6_PartnersInVocabulary ==
    Done => FieldValues(result, k_partners) \subseteq refData.partner_names

C6_Witness ==
    /\ Done /\ path = "pattern_empty"
    /\ \E p \in FieldValues(result, k_partners) :
          ~Contains(p, query) /\ Contains(StrLower(p), query)

\* C7: every field present in a returned result holds a non-empty collection.
C7_NoEmptyField ==
    (Done /\ result.t = "obj") => \A k \in DOMAIN result.f : ~Falsy(result.f[k])

\* C8: the returned value is a mapping whose keys are among the four
\* criteria keys; a reply of another shape does not reach the result.
C8_ResultShape ==
    Done => /\ result.t = "obj"
            /\ DOMAIN result.f \subseteq CriteriaKeys

\* C9: when the validated reply is returned, each of geos, traffic_sources
\* and partners holds exactly the reply's values that are in the vocabulary,
\* and a field none of whose values is in the vocabulary is absent from the
\* result instead of present with an empty list.
C9_FallbackValidation ==
    (Done /\ path = "service" /\ WellTypedReply) =>
        \A k \in ValidatedKeys \cap DOMAIN reply.json.f :
            IF KeptValues(k) = <<>>
            THEN k \notin DOMAIN result.f
            ELSE k \in DOMAIN result.f /\ result.f[k] = JList(KeptValues(k))

C9_Witness ==
    /\ Done /\ path = "service" /\ WellTypedReply
    /\ k_geos \in DOMAIN reply.json.f
    /\ k_geos \notin DOMAIN result.f
    /\ k_traffic_sources \in DOMAIN result.f
    /\ Len(result.f[k_traffic_sources].xs) < Len(reply.json.f[k_traffic_sources].xs)

\* C10: no exception leaves parse_search_query, whatever the outcome of the
\* completion-service call and whatever the vocabulary; a failed call gives
\* the empty result.
C10_NeverRaises ==
    /\ ~raised
    /\ Done => result # JNull
    /\ (Done /\ reply.kind = "raise") => result = EmptyResult

C10_Witness ==
    /\ Done /\ ~raised
    /\ ~PatternEmpty
    /\ reply.kind = "raise"
    /\ path = "error"
    /\ result = EmptyResult


---------------------------------------------------------------------------
(* ReferenceData.load_from_notion_response: the vocabulary is refreshed    *)

\* position of the first ch in s, 0 when s has none
IndexOf(s, ch) ==
    IF \E i \in DOMAIN s : s[i] = ch
    THEN CHOOSE i \in DOMAIN s : s[i] = ch /\ \A j \in 1..(i - 1) : s[j] # ch
    ELSE 0

\* s.split(ch)[0] for a string s that contains ch
Before(s, ch) == SubSeq(s, 1, IndexOf(s, ch) - 1)

\* str.strip() of a string whose only white space is the blank
Strip(s) ==
    LET solid == {i \in DOMAIN s : s[i] # " "}
    IN  IF solid = {} THEN <<>>
        ELSE SubSeq(s, CHOOSE i \in solid : \A j \in solid : i <= j,
                       CHOOSE i \in solid : \A j \in solid : i >= j)

\* lines 27-33: the market code in the title of a page, <<>> for none
GeoOfFunnelCode(code) ==
    IF IndexOf(code, "-") = 0 THEN <<>>
    ELSE IF IndexOf(Strip(Before(code, "-")), " ") = 0
         THEN Strip(Before(code, "-"))
         ELSE Strip(Before(Strip(Before(code, "-")), " "))

\* a page of the Notion response: the plain text of its 'GEO-Funnel Code'
\* title, the id of its advertiser relation, the string of its 'Partner'
\* formula and the names of its 'Sources'
Page(code, partner_id, partner, sources) ==
    [kind |-> "page", code |-> code, partner_id |-> partner_id,
     partner |-> partner, sources |-> sources]

\* a page whose processing raises (a property of another shape)
BadPage == [kind |-> "bad"]

\* lines 21-54: what one page adds to the three sets and to the map of
\* partner ids, in place
AddPage(ref, page) ==
    [ref EXCEPT
        !.geo_codes = @ \cup ({GeoOfFunnelCode(page.code)} \ {<<>>}),
        !.partner_names = @ \cup ({page.partner} \ {<<>>}),
        !.traffic_sources = @ \cup (Range(page.sources) \ {<<>>}),
        !.partner_id_to_name =
            IF page.partner = <<>> THEN @
            ELSE DictPut(@, page.partner_id, page.partner)]

\* the loop of lines 20-62 from page i on; an exception ends it and is
\* raised again (lines 70-72), what earlier pages added stays
RECURSIVE LoadPages(_, _, _)
LoadPages(ref, pages, i) ==
    IF i > Len(pages) THEN [ref |-> ref, raised |-> FALSE]
    ELSE IF pages[i].kind = "bad" THEN [ref |-> ref, raised |-> TRUE]
    ELSE LoadPages(AddPage(ref, pages[i]), pages, i + 1)

\* how a load that gave `loaded` from `ref` ended
RefreshOutcome(ref, loaded) ==
    IF ~loaded.raised THEN "loaded"
    ELSE IF loaded.ref # ref THEN "torn"
    ELSE "raised"

page_IS ==
    Page(<<"I","S"," ","-"," ","N","u","t","r","a">>, "p1",
         <<"s","u","t","r","a">>,
         << <<"T","i","k","T","o","k">> >>)

page_AT ==
    Page(<<"A","T"," ","F","B","-","C","r","y","p","t","o">>, "", <<>>, <<>>)

\* the responses a refresh may be given
Responses ==
    { <<page_IS>>, <<page_IS, page_AT>>, <<page_IS, BadPage, page_AT>>,
      <<BadPage, page_AT>> }

RefreshQueries == { <<"U","K">>, <<"h","e","l","l","o">> }

RefreshReplies ==
    { [kind |-> "content", json |-> ReplyObject(g, Absent, s, p)] :
        g \in GeosReplies, s \in TrafficSourcesReplies, p \in PartnersReplies }
    \cup { [kind |-> "garbage"] }

RefreshInit ==
    /\ Init
    /\ refData \in {SmallRef, EmptyRef}

\* the effect of one call on the state, `loaded` being what the loop gives
LoadEnds(loaded) ==
    /\ refData' = loaded.ref
    /\ refresh' = RefreshOutcome(refData, loaded)
    /\ UNCHANGED <<pc, query, calls, reply, result, path, raised,
                   system_message, startRef, prevCall, scan>>
    /\ UNCHANGED botVars

\* load_from_notion_response(pages) on the ReferenceData object the
\* AIService holds: it runs between two steps of a parse, whatever the
\* position of the parse
LoadFromNotionResponse(pages) ==
    /\ refData.present
    /\ LoadEnds(LoadPages(refData, pages, 1))

RefreshServiceReturns ==
    /\ pc = "awaiting"
    /\ \E rep \in RefreshReplies : Resume(rep)

RefreshNext ==
    \/ \E q \in RefreshQueries : StartParse(q)
    \/ RefreshServiceReturns
    \/ ServiceFails
    \/ Finish
    \/ \E pages \in Responses : LoadFromNotionResponse(pages)

SpecRefresh == RefreshInit /\ [][RefreshNext]_vars

\* what the parse returns for the current query and reply when it validates
\* against the vocabulary ref
ResultWith(ref) == ExceptHandler(TryBody(ref, query, reply)).val

\* the values the instruction block lists for a validated field
ListedValues(key) ==
    CASE key = k_geos            -> Range(system_message.geo_codes)
      [] key = k_traffic_sources -> Range(system_message.traffic_sources)
      [] OTHER                   -> Range(system_message.partner_names)

\* C11: snapshot isolation of the vocabulary: while a parse is suspended on
\* the completion-service call the vocabulary it will read is the one it
\* saw when it started and is not one a failed refresh has updated in part;
\* the parse returns what the vocabulary of its start gives; and the values
\* its reply is validated against are the ones listed in its instruction
\* block.
C11_SnapshotIsolation ==
    /\ pc = "awaiting" => (refData = startRef /\ refresh # "torn")
    /\ Done => result = ResultWith(startRef)
    /\ (Done /\ path = "service") =>
          \A key \in ValidatedKeys : FieldValues(result, key) \subseteq ListedValues(key)

---------------------------------------------------------------------------
(* Two calls of parse_search_query, one after the other                    *)

RepeatReplies ==
    { [kind |-> "content", json |-> ReplyObject(g, Absent, Absent, Absent)] :
        g \in GeosReplies }
    \cup { [kind |-> "garbage"] }

RepeatInit ==
    /\ Init
    /\ refData \in {SmallRef, SampleRef}

RepeatServiceReturns ==
    /\ pc = "awaiting"
    /\ \E rep \in RepeatReplies : Resume(rep)

\* the caller has consumed the returned value; the call is remembered for
\* comparison with the next one
Remember ==
    /\ pc = "done"
    /\ pc' = "idle"
    /\ query' = <<>>
    /\ calls' = 0
    /\ reply' = NoReply
    /\ result' = JNull
    /\ path' = "none"
    /\ raised' = FALSE
    /\ prevCall' = [made |-> TRUE, query |-> query, startRef |-> startRef,
                    endRef |-> refData, reply |-> reply, result |-> result,
                    raised |-> raised]
    /\ UNCHANGED <<refData, system_message, startRef, refresh, scan>>
    /\ UNCHANGED botVars

RepeatNext ==
    \/ \E q \in RefreshQueries : StartParse(q)
    \/ RepeatServiceReturns
    \/ ServiceFails
    \/ Remember
    \/ LoadFromNotionResponse(<<page_IS>>)

SpecRepeat == RepeatInit /\ [][RepeatNext]_vars

\* the vocabulary was the same from the start of the previous call to the
\* end of this one (a load only adds values)
FixedVocabulary ==
    /\ prevCall.startRef = prevCall.endRef
    /\ prevCall.endRef = startRef
    /\ startRef = refData

\* this call has ended and had the query and the vocabulary of the previous
\* call
SameCall ==
    /\ Done
    /\ prevCall.made
    /\ prevCall.query = query
    /\ FixedVocabulary

---------------------------------------------------------------------------
(* _fallback_pattern_matching on its own: the scan of                      *)
(* _extract_geo_with_language step by step, then the returned dict         *)

\* the locals i, geos, geo_languages of _extract_geo_with_language
ScanTo(i, geos, langs) == [i |-> i, geos |-> geos, langs |-> langs]

\* one iteration of the while loop (lines 239-303) at position s.i
GeoStep(ref, parts, s) ==
    LET part == parts[s.i]
        expanded_geos == ExpandRegion(part)
        more == s.i + 1 <= Len(parts)
        next_part == StrLower(parts[s.i + 1])
        geo == StrUpper(part)
        combined == StrUpper(SubSeq(part, 1, 2))
    IN
    IF expanded_geos # <<>>
    THEN IF more /\ NativeAdsAhead(parts, s.i)
         THEN ScanTo(s.i + 2, s.geos \cup Range(expanded_geos), s.langs)
         ELSE IF more /\ ActsAsLanguage(next_part)
         THEN ScanTo(s.i + 2, s.geos \cup Range(expanded_geos),
                     [c \in (DOMAIN s.langs) \cup Range(expanded_geos) |->
                         IF c \in Range(expanded_geos)
                         THEN NormalizeLanguage(next_part)
                         ELSE s.langs[c]])
         ELSE ScanTo(s.i + 1, s.geos \cup Range(expanded_geos), s.langs)
    ELSE IF CombinedMatch(part) /\ combined \in ref.geo_codes
    THEN ScanTo(s.i + 1, s.geos \cup {combined},
                DictPut(s.langs, combined,
                        NormalizeLanguage(StrLower(SubSeq(part, 3, Len(part))))))
    ELSE IF geo \in ref.geo_codes
    THEN IF more /\ ActsAsLanguage(next_part)
         THEN IF NativeAdsAhead(parts, s.i)
              THEN ScanTo(s.i + 2, s.geos \cup {geo}, s.langs)
              ELSE ScanTo(s.i + 2, s.geos \cup {geo},
                          DictPut(s.langs, geo, NormalizeLanguage(next_part)))
         ELSE ScanTo(s.i + 1, s.geos \cup {geo}, s.langs)
    ELSE ScanTo(s.i + 1, s.geos, s.langs)

\* the sample vocabulary with three more markets, two of which (TT, GG) are
\* spelled like channel aliases
WideRef ==
    ReferenceData(SampleGeoCodes \cup {<<"T","T">>, <<"G","G">>, <<"A","T">>},
                  SamplePartnerNames, SampleTrafficSources)

PatternVocabularies == {SampleRef, WideRef}

\* largest number of words in a query made of words
MaxWords == 3

\* the queries of n of the given words with sep between them
RECURSIVE Phrases(_, _, _)
Phrases(words, sep, n) ==
    IF n = 1 THEN words
    ELSE { q \o sep \o w : q \in Phrases(words, sep, n - 1), w \in words }

\* the queries of up to MaxWords words, with one of the separators
PhrasesOf(words, seps) ==
    UNION { Phrases(words, sep, n) : sep \in seps, n \in 1..MaxWords }

\* a word in every letter case
CaseVariants(w) ==
    { [i \in DOMAIN w |-> IF i \in S THEN UpperChar(w[i]) ELSE LowerChar(w[i])] :
        S \in SUBSET (DOMAIN w) }

\* a region label alone, in every letter case
RegionQueries ==
    UNION { CaseVariants(REGION_MAPPING[n][1]) : n \in DOMAIN REGION_MAPPING }

w_UK == <<"U","K">>

\* lists of market codes
MarketQueries ==
    PhrasesOf({ <<"U","K">>, <<"E","S">>, <<"F","R">>, <<"A","T">> },
              { <<",", " ">>, <<" ">> })

\* a market code, the language word of 'Native Ads', another language
\* word, the second word of 'Native Ads', a word of no vocabulary and a
\* short word
PatternLexicon ==
    { <<"U","K">>, <<"N","a","t","i","v","e">>,
      <<"E","n","g","l","i","s","h">>, <<"A","d","s">>,
      <<"h","e","l","l","o">>, <<"a","t">> }

WordQueries == PhrasesOf(PatternLexicon, { <<" ">>, <<"|">> })

\* the one-word keys of the alias table as written, in lower case, in upper
\* case and capitalized
AliasTokens ==
    UNION { { k, StrLower(k), StrUpper(k),
              <<UpperChar(k[1])>> \o StrLower(Tail(k)) } :
            k \in { TRAFFIC_SOURCE_ALIASES[n][1] :
                      n \in { m \in DOMAIN TRAFFIC_SOURCE_ALIASES :
                                ~Contains(<<" ">>, TRAFFIC_SOURCE_ALIASES[m][1]) } } }

\* an alias alone, and after a market code
AliasQueries ==
    AliasTokens \cup { w_UK \o <<" ">> \o t : t \in AliasTokens }

\* compact tokens: two letters and a suffix, alone and after a market code
CompactTokens ==
    { p \o s :
        p \in { <<"C","H">>, <<"R","U">>, <<"d","e">>, <<"U","k">>,
               <<"X","X">> },
        s \in { <<"f","r">>, <<"F","R">>, <<"r","u">>, <<"e","n">>,
               <<"n","a","t">>, <<"N","A","T">>, <<"f","r","a">>,
               <<"e","n","g">>, <<"z","z">> } }

CompactQueries ==
    CompactTokens \cup { w_UK \o <<" ">> \o t : t \in CompactTokens }

\* a market code or a region label, then a language word, then 'Ads'
AdsQueries ==
    { m \o sep \o l \o sep \o a :
        m \in { <<"U","K">>, <<"N","O","R","D","I","C","S">> },
        l \in { <<"N","a","t","i","v","e">>, <<"n","a","t","i","v","e">>,
               <<"E","n","g","l","i","s","h">>, <<"F","r","e","n","c","h">>,
               <<"n","a","t">> },
        a \in { <<"A","d","s">>, <<"A","d">>, <<"a","d","s">>, <<"A","D">> },
        sep \in { <<" ">>, <<"|">>, <<",">>, <<"+">>, <<",", " ">> } }

\* the queries of TEST_CASES
TestQueries ==
    { <<"U","K",","," ","E","S",","," ","F","I">>,
      <<"C","H","f","r"," ","D","E"," ","N","a","t","i","v","e">>,
      <<"U","K"," ","E","S"," ","S","u","t","r","a"," ","M","X">>,
      <<"M","X"," ","J","P"," ","S","u","t","r","a"," ","T","o","k","o","M","e","d","i","a">>,
      <<"C","H"," ","F","r","e","n","c","h"," ","D","E"," ","N","a","t","i","v","e"," ","S","u","t","r","a">>,
      <<"P","L"," ","C","Z"," ","D","E"," ","N","O","R","D","I","C","S">>,
      <<"C","Y"," ","J","O"," ","S","A"," ","M","T"," ","L","K"," ","M","Y"," ","Z","A"," ","E","n","g","l","i","s","h">>,
      <<"U","K"," ","F","a","c","e","b","o","o","k"," ","G","o","o","g","l","e">>,
      <<"D","E"," ","N","a","t","i","v","e"," ","P","u","s","h"," ","E","m","a","i","l">>,
      <<"U","K"," ","E","S"," ","S","u","t","r","a"," ","F","a","c","e","b","o","o","k"," ","I","n","s","t","a","g","r","a","m"," ","T","i","k","T","o","k">>,
      <<"N","O","R","D","I","C","S"," ","N","a","t","i","v","e"," ","S","E","O"," ","N","a","t","i","v","e","A","d","s">>,
      <<"U","K"," ","f","b"," ","g","g">>,
      <<"D","E"," ","M","S","N"," ","B","i","n","g"," ","N","a","t","i","v","e"," ","A","d","s">>,
      <<"U","K"," ","E","S"," ","I","G"," ","T","a","b","o","o","l","a">>,
      <<"N","O","R","D","I","C","S"," ","F","a","c","e","b","o","o","k","|","G","o","o","g","l","e"," ","S","E","O">>,
      <<"U","K"," ","N","a","t","i","v","e"," ","A","d","s","+","S","E","O">>,
      <<"R","U","r","u",","," ","S","G","e","n",","," ","C","A","e","n",","," ","U","K","r","u",","," ","G","C","C",","," ","M","X"," ","N","a","t","i","v","e",","," ","B","R"," ","N","a","t","i","v","e">> }

\* two or three of a partner name, another partner name, a market code and
\* a channel, with each separator between them
PartnerQueries ==
    UNION { Phrases({ <<"S","u","t","r","a">>, <<"T","o","k","o","M","e","d","i","a">>, <<"U","K">>, <<"F","a","c","e","b","o","o","k">> }, sep, n) :
              sep \in { <<" ">>, <<"|">>, <<"+">>, <<",">>, <<",", " ">> },
              n \in {2, 3} }

\* the two-letter keys of the language table
TwoLetterLanguages == { k \in DOMAIN LanguageMap : Len(k) = 2 }

\* a market code and a two-letter language code, as one token and as two
NotationQueries ==
    UNION { { m \o l, m \o <<" ">> \o l } :
              m \in { <<"U","K">>, <<"C","H">> },
              l \in TwoLetterLanguages \cup { StrUpper(k) : k \in TwoLetterLanguages } }

\* a region label or a market code, then a language key or another token,
\* alone and before one more market code
LanguageQueries ==
    UNION { { m \o <<" ">> \o t, m \o <<" ">> \o t \o <<" ">> \o <<"C","H">> } :
              m \in { <<"N","O","R","D","I","C","S">>, <<"n","o","r","d","i","c","s">>, <<"U","K">> },
              t \in { <<"F","r","e","n","c","h">>, <<"S","p","a","n","i","s","h">>, <<"e","s">>, <<"d","e">>, <<"D","E">>, <<"f","r","a">>, <<"e","s","p">>,
                     <<"n","a","t">>, <<"a","t">>, <<"n","a">>, <<"F","R">>, <<"h","e","l","l","o">> } }

\* markets and channels repeated and out of order
OrderQueries ==
    Phrases({ <<"U","K"," ","G","o","o","g","l","e">>, <<"E","S"," ","F","a","c","e","b","o","o","k">>, <<"F","I"," ","S","E","O">> }, <<" ">>, 3)

PatternQueries ==
    RegionQueries \cup MarketQueries \cup WordQueries \cup AliasQueries
        \cup CompactQueries \cup AdsQueries \cup TestQueries
        \cup PartnerQueries \cup NotationQueries \cup LanguageQueries
        \cup OrderQueries

\* _fallback_pattern_matching(query) has been called and
\* _extract_geo_with_language is at the top of its loop
PatternInit ==
    /\ refData \in PatternVocabularies
    /\ query \in PatternQueries
    /\ pc = "scanning"
    /\ scan = ScanTo(1, {}, EmptyDict)
    /\ calls = 0
    /\ reply = NoReply
    /\ result = JNull
    /\ path = "none"
    /\ raised = FALSE
    /\ system_message = SystemMessage(refData)
    /\ startRef = refData
    /\ refresh = "none"
    /\ prevCall = NoCall
    /\ BotIdle

ScanStep ==
    /\ pc = "scanning"
    /\ scan.i <= Len(SplitParts(query))
    /\ scan' = GeoStep(refData, SplitParts(query), scan)
    /\ UNCHANGED <<refData, pc, query, calls, reply, result, path, raised,
                   system_message, startRef, refresh, prevCall>>
    /\ UNCHANGED botVars

\* the loop has ended: lines 308 and 381-397
PatternReturn ==
    /\ pc = "scanning"
    /\ scan.i > Len(SplitParts(query))
    /\ pc' = "done"
    /\ result' = PatternDict([geos |-> SortedList(scan.geos), langs |-> scan.langs],
                             ExtractTrafficSources(refData, query),
                             ExtractPartnerNames(refData, query))
    /\ path' = "pattern"
    /\ UNCHANGED <<refData, query, calls, reply, raised, system_message,
                   startRef, refresh, prevCall, scan>>
    /\ UNCHANGED botVars

PatternNext == ScanStep \/ PatternReturn

SpecPattern == PatternInit /\ [][PatternNext]_vars

\* the scan taken step by step gives what GeoScan gives
ScanAgrees ==
    Done => result = FallbackPatternMatching(refData, query)

\* the tokens of the query
Parts == SplitParts(query)

Markets == FieldValues(result, k_geos)

Channels == FieldValues(result, k_traffic_sources)

Partners == FieldValues(result, k_partners)

\* the geo_languages of the result, as a function from markets to languages
MarketLanguages ==
    IF k_geo_languages \in DOMAIN result.f
    THEN [c \in DOMAIN result.f[k_geo_languages].f |->
            result.f[k_geo_languages].f[c].s]
    ELSE EmptyDict

\* token i is a market code of the vocabulary, in any letter case
MarketAt(i) == StrUpper(Parts[i]) \in refData.geo_codes

\* token i is a region label, in any letter case
RegionAt(i) == StrUpper(Parts[i]) \in DOMAIN RegionMap

\* token t is a key of the language alias table, in any letter case
LanguageToken(t) == StrLower(t) \in DOMAIN LanguageMap

\* token t is a market code followed by two or three more letters
CompactToken(t) ==
    /\ Len(t) \in {4, 5}
    /\ \A n \in DOMAIN t : t[n] \in LetterSet
    /\ StrUpper(SubSeq(t, 1, 2)) \in refData.geo_codes

\* the markets token i stands for
ProducedBy(i) ==
    IF RegionAt(i) THEN Range(RegionMap[StrUpper(Parts[i])])
    ELSE IF CompactToken(Parts[i]) THEN {StrUpper(SubSeq(Parts[i], 1, 2))}
    ELSE IF MarketAt(i) THEN {StrUpper(Parts[i])}
    ELSE {}

\* no other token of the query stands for a market of token i
OnlyOccurrence(i) ==
    \A j \in (DOMAIN Parts) \ {i} : ProducedBy(j) \cap ProducedBy(i) = {}

\* token i is followed by the token 'native' and then 'ads' or 'ad'
NativeAdsAfter(i) ==
    /\ i + 2 <= Len(Parts)
    /\ StrLower(Parts[i + 1]) = w_native
    /\ StrLower(Parts[i + 2]) \in AdsWords

---------------------------------------------------------------------------
(* Properties of the pattern extraction                                    *)

OnlyMarketCodes ==
    /\ Parts # <<>>
    /\ \A i \in DOMAIN Parts : Parts[i] \in refData.geo_codes
    /\ \A n \in DOMAIN query : query[n] \notin {"|", "+"}

\* C14: for every query that is a list of valid market codes separated by
\* commas or white space, markets is the ascending sorted set of exactly
\* those codes and there is no geo_languages field.
C14_MarketList ==
    (Done /\ OnlyMarketCodes) =>
        /\ k_geos \in DOMAIN result.f
        /\ result.f[k_geos] = StrList(SortedList(Range(Parts)))
        /\ k_geo_languages \notin DOMAIN result.f

\* C15: whenever a market code is followed by the token 'Native' and then
\* the token 'Ads' or 'Ad', whatever separates the tokens, the channel
\* NativeAds is in traffic_sources and the market (when no other token of
\* the query stands for it) has no geo_languages entry.
C15_NativeAdsAbsorbed ==
    Done =>
        \A i \in DOMAIN Parts :
            (MarketAt(i) /\ NativeAdsAfter(i)) =>
                /\ w_NativeAds \in Channels
                /\ OnlyOccurrence(i) =>
                      StrUpper(Parts[i]) \notin DOMAIN MarketLanguages

\* the letters of a compact token after its market code
SuffixOf(t) == StrLower(SubSeq(t, 3, Len(t)))

\* C16: every token made of a valid market code directly followed by a
\* language suffix of two or three letters adds that market and records
\* the language the suffix normalizes to for it.
C16_CompactGrammar ==
    Done =>
        \A i \in DOMAIN Parts :
            (CompactToken(Parts[i]) /\ SuffixOf(Parts[i]) \in DOMAIN LanguageMap) =>
                /\ ProducedBy(i) \subseteq Markets
                /\ ProducedBy(i) \subseteq DOMAIN MarketLanguages
                /\ OnlyOccurrence(i) =>
                      \A m \in ProducedBy(i) :
                          MarketLanguages[m] = LanguageMap[SuffixOf(Parts[i])]

\* the canonical names the alias table gives token t, compared without
\* regard to letter case
AliasCanonical(t) ==
    { TRAFFIC_SOURCE_ALIASES[n][2] :
        n \in { m \in DOMAIN TRAFFIC_SOURCE_ALIASES :
                  StrLower(TRAFFIC_SOURCE_ALIASES[m][1]) = StrLower(t) } }

C18_LanguageLocality ==
    Done =>
        \A m \in DOMAIN MarketLanguages :
            \E i \in DOMAIN Parts :
                /\ m \in ProducedBy(i)
                /\ \/ CompactToken(Parts[i])
                   \/ (i + 1 <= Len(Parts) /\ LanguageToken(Parts[i + 1]))

\* the scan is at a market code or a region label that is followed by the
\* token t and then by 'ads' or 'ad'
AdsPhraseAhead ==
    /\ pc = "scanning"
    /\ scan.i + 2 <= Len(Parts)
    /\ MarketAt(scan.i) \/ RegionAt(scan.i)
    /\ StrLower(Parts[scan.i + 2]) \in AdsWords

RECURSIVE OtherWords(_, _)
OtherWords(parts, i) ==
    IF i > Len(parts) THEN <<>>
    ELSE IF StrUpper(parts[i]) \in refData.geo_codes THEN OtherWords(parts, i + 1)
    ELSE parts[i] \o <<" ">> \o OtherWords(parts, i + 1)

\* C20: a token that is a market code contributes nothing to
\* traffic_sources or partners: every channel and partner of the result is
\* also found in the query without its market codes.
C20_MarketTokenOnlyMarket ==
    Done =>
        /\ Channels \subseteq
              Range(ExtractTrafficSources(refData, OtherWords(Parts, 1)))
        /\ Partners \subseteq
              Range(ExtractPartnerNames(refData, OtherWords(Parts, 1)))

\* the list of strings under key of the result
ListOf(key) ==
    IF key \in DOMAIN result.f
    THEN [n \in DOMAIN result.f[key].xs |-> result.f[key].xs[n].s]
    ELSE <<>>

\* the partners list of the result
PartnerList == ListOf(k_partners)

\* the tokens _extract_partner_names looks at
PartnerParts == SplitPartnerParts(query)

\* the position of the first token that spells partner p
FirstSeen(p) ==
    CHOOSE n \in DOMAIN PartnerParts :
        /\ StrLower(PartnerParts[n]) = StrLower(p)
        /\ \A k \in 1..(n - 1) : StrLower(PartnerParts[k]) # StrLower(p)

\* C21: the partners list of a pattern result is duplicate-free and in
\* first-seen order: a partner name that occurs several times in the query
\* appears once, at the position of its first occurrence.
C21_PartnersOnce ==
    Done =>
        \A i, j \in DOMAIN PartnerList :
            i < j => /\ PartnerList[i] # PartnerList[j]
                     /\ FirstSeen(PartnerList[i]) < FirstSeen(PartnerList[j])

\* each string of the list is less than the next one
StrictlyAscending(xs) ==
    \A n \in 1..(Len(xs) - 1) : StrLess(xs[n], xs[n + 1])

\* C22: in every pattern result, markets is in strictly ascending order and
\* channels is in strictly ascending order, whatever the order and the
\* repetition of the tokens of the query.
C22_SortedLists ==
    Done => /\ StrictlyAscending(ListOf(k_geos))
            /\ StrictlyAscending(ListOf(k_traffic_sources))

C22_Witness ==
    /\ Done
    /\ query = <<"U","K"," ","G","o","o","g","l","e"," ","E","S"," ","F","a","c","e","b","o","o","k"," ","U","K"," ","G","o","o","g","l","e">>
    /\ ListOf(k_geos) = << <<"E","S">>, <<"U","K">> >>
    /\ ListOf(k_traffic_sources) = << <<"F","a","c","e","b","o","o","k">>, <<"G","o","o","g","l","e">> >>

\* C23: tokenization is the same for every criterion: a partner name that
\* is a token of the query under the separators of the market and channel
\* detection (comma, white space, '|', '+') is in partners.
C23_SameTokens ==
    Done =>
        \A i \in DOMAIN Parts : \A p \in refData.partner_names :
            StrLower(p) = StrLower(Parts[i]) => p \in Partners

\* the scan is at a market code or a region label that has a token after it
TokenAhead ==
    /\ pc = "scanning"
    /\ scan.i + 1 <= Len(Parts)
    /\ MarketAt(scan.i) \/ RegionAt(scan.i)

\* C24: when a region label is directly followed by a language token that
\* does not start an 'ads'/'ad' phrase, every market of the region gets
\* that language, normalized, and the scan resumes two tokens after the
\* region label.
C24_RegionLanguage ==
    [][(/\ TokenAhead
        /\ RegionAt(scan.i)
        /\ LanguageToken(Parts[scan.i + 1])
        /\ ~AdsPhraseAhead) =>
          /\ scan'.i = scan.i + 2
          /\ \A m \in ProducedBy(scan.i) :
                /\ m \in DOMAIN scan'.langs
                /\ scan'.langs[m] = LanguageMap[StrLower(Parts[scan.i + 1])]]_vars

\* C26: the token after a market code or region label is consumed as a
\* language only if it is a key of the language alias table: after any
\* other token the scan moves to that token and assigns no language.
C26_OnlyLanguageKeys ==
    [][(TokenAhead /\ ~LanguageToken(Parts[scan.i + 1])) =>
          (scan'.i = scan.i + 1 /\ scan'.langs = scan.langs)]_vars

\* C25: the instruction block sent with a completion-service call lists the
\* vocabulary that is current at the time of the call: while the call is
\* awaited, the instructions are those of the vocabulary the parse started
\* with, also when the vocabulary changed before the parse.
C25_CurrentInstructions ==
    pc = "awaiting" => system_message = SystemMessage(startRef)

\* the query is one token made of a market code and a two-letter language
\* code that is not a market code
CompactPair ==
    /\ Len(query) = 4
    /\ Parts = <<query>>
    /\ StrUpper(SubSeq(query, 1, 2)) \in refData.geo_codes
    /\ SuffixOf(query) \in TwoLetterLanguages
    /\ StrUpper(SubSeq(query, 3, 4)) \notin refData.geo_codes

\* the query with a space between the market code and the language code
Separated == SubSeq(query, 1, 2) \o <<" ">> \o SubSeq(query, 3, 4)

\* the market fields of a result
MarketFields(r) ==
    [k \in (DOMAIN r.f) \cap {k_geos, k_geo_languages} |-> r.f[k]]

\* C27: the compact and the separated notation agree: for a market code M
\* and a two-letter language code L that is not a market code, the queries
\* 'ML' and 'M L' give the same markets and the same market_languages.
C27_NotationsAgree ==
    (Done /\ CompactPair) =>
        MarketFields(result) =
            MarketFields(FallbackPatternMatching(refData, Separated))

---------------------------------------------------------------------------
(* UserSession                                                             *)

\* self.deals_per_page
deals_per_page == 5

\* largest number of deals a search returns
MaxDeals == 6

\* a list of n deals
Deals(n) == [k \in 1..n |-> k]

\* UserSession(deals), with the default current_index
UserSession(deals) ==
    [ present        |-> TRUE,
      deals          |-> deals,
      current_index  |-> 0,
      selected_deals |-> {},
      pricing_mode   |-> "network" ]

get_current_page(s) == (s.current_index \div deals_per_page) + 1

total_pages(s) == (Len(s.deals) + deals_per_page - 1) \div deals_per_page

has_next(s) == s.current_index + deals_per_page < Len(s.deals)

has_prev(s) == s.current_index >= deals_per_page

\* next_page moving whether or not there is a next page
next_page_unguarded(s) ==
    [s EXCEPT !.current_index = @ + deals_per_page]

next_page(s) ==
    IF has_next(s) THEN [s EXCEPT !.current_index = @ + deals_per_page] ELSE s

prev_page(s) ==
    IF has_prev(s) THEN [s EXCEPT !.current_index = @ - deals_per_page] ELSE s

\* next_deal, with has_next_deal and has_deals
next_deal(s) ==
    IF s.deals # <<>> /\ s.current_index < Len(s.deals) - 1
    THEN [s EXCEPT !.current_index = @ + 1] ELSE s

\* prev_deal, with has_prev_deal and has_deals
prev_deal(s) ==
    IF s.deals # <<>> /\ s.current_index > 0
    THEN [s EXCEPT !.current_index = @ - 1] ELSE s

toggle_deal_selection(s, deal_index) ==
    IF 0 <= deal_index /\ deal_index < Len(s.deals)
    THEN IF deal_index \in s.selected_deals
         THEN [s EXCEPT !.selected_deals = @ \ {deal_index}]
         ELSE [s EXCEPT !.selected_deals = @ \cup {deal_index}]
    ELSE s

\* a session has been created with a non-empty deals list
SessionInit ==
    /\ \E n \in 1..MaxDeals : session = UserSession(Deals(n))
    /\ last_deals_text = FALSE
    /\ chat = {}
    /\ sent_filter = NoFilter
    /\ refData = SampleRef
    /\ pc = "idle"
    /\ query = <<>>
    /\ calls = 0
    /\ reply = NoReply
    /\ result = JNull
    /\ path = "none"
    /\ raised = FALSE
    /\ system_message = SystemMessage(refData)
    /\ startRef = refData
    /\ refresh = "none"
    /\ prevCall = NoCall
    /\ scan = NoScan

\* what a method of the session leaves alone
sessionRest == <<parseVars, last_deals_text, chat, sent_filter>>

NextPage == session' = next_page(session) /\ UNCHANGED sessionRest

PrevPage == session' = prev_page(session) /\ UNCHANGED sessionRest

NextDeal == session' = next_deal(session) /\ UNCHANGED sessionRest

PrevDeal == session' = prev_deal(session) /\ UNCHANGED sessionRest

ToggleDealSelection ==
    \E deal_index \in -1..MaxDeals :
        /\ session' = toggle_deal_selection(session, deal_index)
        /\ UNCHANGED sessionRest

SessionNext ==
    \/ NextPage
    \/ PrevPage
    \/ NextDeal
    \/ PrevDeal
    \/ ToggleDealSelection

SpecSession == SessionInit /\ [][SessionNext]_vars

\* C29: for a session created with a non-empty deals list and the default
\* start index, after any sequence of next_page, prev_page, next_deal and
\* prev_deal the current index stays within 0 .. len(deals)-1 and the page
\* number within 1 .. total_pages; next_page followed by prev_page restores
\* the index whenever next_page moved.
C29_IndexInRange ==
    /\ session.current_index \in 0..(Len(session.deals) - 1)
    /\ get_current_page(session) \in 1..total_pages(session)
    /\ next_page(session) # session =>
          prev_page(next_page(session)).current_index = session.current_index

\* the session is on its second page after next_page and next_deal
C29_Witness ==
    /\ Len(session.deals) > deals_per_page
    /\ session.current_index >= deals_per_page
    /\ get_current_page(session) = 2
    /\ get_current_page(session) = total_pages(session)

---------------------------------------------------------------------------
(* DealSearchBot: handle_message and _handle_callback for one user         *)

\* a button with its callback data: "select" with the index i of
\* 'select_<i>', the other data with 0
Button(cmd, arg) == [cmd |-> cmd, arg |-> arg]

\* the callback data of _create_keyboard(session)
Keyboard(s) ==
    { Button("select", i) :
        i \in { k \in s.current_index..(s.current_index + deals_per_page - 1) :
                  k < Len(s.deals) } }
    \cup (IF has_prev(s) THEN {Button("prev", 0)} ELSE {})
    \cup (IF has_next(s) THEN {Button("next", 0)} ELSE {})
    \cup { Button("price_network", 0), Button("price_brand", 0),
           Button("view", 0), Button("exit", 0) }

\* some index of the set is no index of the deals list
IndexError(s, indexes) == \E idx \in indexes : idx >= Len(s.deals)

\* what a callback leaves: the session, the buttons of the messages it
\* sent or edited, whether it stored last_deals_text
Outcome(s, shown, text) == [session |-> s, shown |-> shown, text |-> text]

\* _handle_callback from line 125 on, for callback data `data` on a message
\* whose text has 'Selected Deal:' iff header; an exception ends the
\* handler where it is raised
CallbackOutcome(s, data, header) ==
    LET picked  == [s EXCEPT !.selected_deals = @ \cup {data.arg}]
        dropped == [s EXCEPT !.selected_deals = @ \ {data.arg}]
        priced  == [s EXCEPT !.pricing_mode =
                       IF data.cmd = "price_brand" THEN "brand" ELSE "network"]
    IN
    CASE data.cmd = "select" ->
             IF data.arg \in s.selected_deals
             THEN Outcome(dropped, Keyboard(dropped), FALSE)
             ELSE IF IndexError(s, {data.arg})
                  THEN Outcome(picked, {}, FALSE)
                  ELSE Outcome(picked, Keyboard(picked), FALSE)
      [] data.cmd = "prev" ->
             Outcome(prev_page(s), Keyboard(prev_page(s)), FALSE)
      [] data.cmd = "next" ->
             Outcome(next_page(s), Keyboard(next_page(s)), FALSE)
      [] data.cmd \in {"price_network", "price_brand"} ->
             IF header /\ IndexError(s, s.selected_deals)
             THEN Outcome(priced, {}, FALSE)
             ELSE Outcome(priced, Keyboard(priced), FALSE)
      [] data.cmd = "view" ->
             IF IndexError(s, s.selected_deals)
             THEN Outcome(s, {}, FALSE)
             ELSE Outcome(s, Keyboard(s) \cup { Button("copy_deals", 0),
                                                Button("close_deals", 0) }, TRUE)
      [] data.cmd = "exit" -> Outcome(NoSession, {}, FALSE)
      [] OTHER -> Outcome(s, {}, FALSE)

\* handle_message: the search gives 2 or MaxDeals deals; with no deals, or
\* with an exception, only a text is sent
HandleMessage ==
    \E n \in {2, MaxDeals} :
        /\ session' = UserSession(Deals(n))
        /\ chat' = chat \cup Keyboard(UserSession(Deals(n)))
        /\ UNCHANGED <<parseVars, last_deals_text, sent_filter>>

\* _handle_callback for a button of a message of the chat; without a
\* session only the text of the message changes
HandleCallback ==
    \E data \in chat, header \in BOOLEAN :
        LET out == CallbackOutcome(session, data, header)
        IN  /\ session # NoSession
            /\ session' = out.session
            /\ chat' = chat \cup out.shown
            /\ last_deals_text' = (last_deals_text \/ out.text)
            /\ UNCHANGED <<parseVars, sent_filter>>

BotInit == Init /\ refData = SampleRef

BotNext == HandleMessage \/ HandleCallback

SpecBot == BotInit /\ [][BotNext]_vars

\* C28: after any sequence of button callbacks and new searches for one
\* user, including a select_<i> callback from the keyboard of an earlier
\* search's message, every index in the session's selected_deals is a valid
\* index of the session's current deals list.
C28_SelectedValid ==
    session # NoSession =>
        \A idx \in session.selected_deals :
            0 <= idx /\ idx < Len(session.deals)

---------------------------------------------------------------------------
(* NotionService.search_deals: the filter of the catalog query             *)

\* the reference data _load_reference_data builds: every advertiser page
\* gives a partner name and the entry id -> name of the map
LoadReferenceData(advertisers, geo_codes, traffic_sources) ==
    [ReferenceData(geo_codes, Range(advertisers), traffic_sources)
        EXCEPT !.partner_id_to_name = advertisers]

\* a catalog with two advertisers
NotionRef ==
    LoadReferenceData([pid \in {"a1", "a2"} |->
                           IF pid = "a1" THEN <<"S","u","t","r","a">> ELSE <<"T","o","k","o","M","e","d","i","a">>],
                      {<<"U","K">>, <<"C","H">>, <<"D","K">>, <<"S","E">>}, {<<"F","a","c","e","b","o","o","k">>, <<"S","E","O">>})

\* the responses of a refresh: an offer of advertiser a1 whose 'Partner'
\* formula gives another string than the advertiser's name, and page_IS
SearchResponses ==
    { << Page(<<"U","K"," ","-"," ","N","u","t","r","a">>, "a1", <<"S","u","t","r","a","M","e","d","i","a">>, << <<"S","E","O">> >>) >>, <<page_IS>> }

SearchQueries ==
    { <<"S","u","t","r","a">>, <<"T","o","k","o","M","e","d","i","a">>, <<"U","K"," ","S","u","t","r","a">>, <<"S","u","t","r","a"," ","T","o","k","o","M","e","d","i","a">>, <<"C","H","f","r"," ","F","a","c","e","b","o","o","k">>,
      <<"S","u","t","r","a","M","e","d","i","a">>, <<"h","e","l","l","o">> }

\* `key in search_params and search_params[key]`
Given(params, key) == key \in DOMAIN params.f /\ ~Falsy(params.f[key])

\* the condition of one market (lines 125-158)
GeoCondition(params, geo) ==
    IF Given(params, k_geo_languages) /\ geo \in DOMAIN params.f[k_geo_languages].f
    THEN [and |-> << [property |-> "GEO", contains |-> geo],
                     [property |-> "Language",
                      contains |-> params.f[k_geo_languages].f[geo].s] >>]
    ELSE [property |-> "GEO", contains |-> geo]

\* the ids the map gives partner (lines 186-190 take the first one)
PartnerIds(ref, partner) ==
    { pid \in DOMAIN ref.partner_id_to_name : ref.partner_id_to_name[pid] = partner }

\* filter_conditions (lines 120-202): one "or" group for each criterion
\* that is given and has conditions
FilterConditions(ref, params) ==
    LET geos == IF Given(params, k_geos) THEN params.f[k_geos].xs ELSE <<>>
        sources == IF Given(params, k_traffic_sources)
                   THEN params.f[k_traffic_sources].xs ELSE <<>>
        partners == IF Given(params, k_partners)
                    THEN SelectSeq(params.f[k_partners].xs,
                                   LAMBDA p : PartnerIds(ref, p.s) # {})
                    ELSE <<>>
    IN  (IF geos = <<>> THEN <<>>
         ELSE << [or |-> [n \in DOMAIN geos |-> GeoCondition(params, geos[n].s)]] >>)
        \o
        (IF sources = <<>> THEN <<>>
         ELSE << [or |-> [n \in DOMAIN sources |->
                            [property |-> "Sources", contains |-> sources[n].s]]] >>)
        \o
        (IF partners = <<>> THEN <<>>
         ELSE << [or |-> [n \in DOMAIN partners |->
                            [property |-> "ALL ADVERTISERS | Kitchen",
                             contains |-> CHOOSE pid \in
                                 PartnerIds(ref, partners[n].s) : TRUE]]] >>)

\* the bot is idle on the reference data the NotionService loaded
SearchInit ==
    /\ refData = NotionRef
    /\ pc = "idle"
    /\ query = <<>>
    /\ calls = 0
    /\ reply = NoReply
    /\ result = JNull
    /\ path = "none"
    /\ raised = FALSE
    /\ system_message = SystemMessage(refData)
    /\ startRef = refData
    /\ refresh = "none"
    /\ prevCall = NoCall
    /\ scan = NoScan
    /\ BotIdle

\* _get_deals: search_deals(search_params) with what the parse returned;
\* the filter of the query (lines 205-210) is {"and": filter_conditions},
\* or {} when there are no conditions
SearchDeals ==
    /\ pc = "done"
    /\ ~raised
    /\ sent_filter' =
          [ sent   |-> TRUE,
            params |-> result,
            empty  |-> FilterConditions(refData, result) = <<>>,
            and    |-> FilterConditions(refData, result) ]
    /\ pc' = "idle"
    /\ query' = <<>>
    /\ calls' = 0
    /\ reply' = NoReply
    /\ result' = JNull
    /\ path' = "none"
    /\ UNCHANGED <<refData, raised, system_message, startRef, refresh,
                   prevCall, scan, session, last_deals_text, chat>>

SearchNext ==
    \/ \E q \in SearchQueries : StartParse(q)
    \/ RefreshServiceReturns
    \/ ServiceFails
    \/ SearchDeals
    \/ \E pages \in SearchResponses : LoadFromNotionResponse(pages)

SpecSearch == SearchInit /\ [][SearchNext]_vars

\* the group is the "or" of partner conditions
PartnerGroup(group) ==
    /\ "property" \in DOMAIN group.or[1]
    /\ group.or[1].property = "ALL ADVERTISERS | Kitchen"

\* C30: a partners criterion is never dropped by the search: whenever
\* search_deals receives a non-empty partners list, the filter it sends to
\* the catalog contains a partner condition.
C30_PartnersKept ==
    (sent_filter.sent /\ FieldValues(sent_filter.params, k_partners) # {}) =>
        \E n \in DOMAIN sent_filter.and : PartnerGroup(sent_filter.and[n])

=============================================================================
